---- MODULE Spec2Model ----
(***************************************************************************)
(* Model of the trading bot of src/main.py (class BinanceTraderBot):       *)
(* the constructor, updateAllData with its retry loop, buyStock and        *)
(* sellStock with the quantity computation and validation, the trading     *)
(* loop _run_loop, and start / stop.                                       *)
(*                                                                         *)
(* Two threads of control act on one bot object: "main" constructs the bot *)
(* and runs start() (which blocks inside _run_loop), and "ctl" is the      *)
(* thread from which stop() is called while the loop runs (the dashboard   *)
(* of src/streamlit_app.py).  A step of a thread is one blocking exchange  *)
(* call, or a group of exchange reads, together with the local code that   *)
(* follows it up to the next blocking call.                                *)
(*                                                                         *)
(* Quantities of the base asset are integers counting units of 10^-5       *)
(* (Decimal values with at most 5 fractional digits); amounts of the quote *)
(* asset are integers counting cents; closes are integers counting tenths; *)
(* percentages of stop-loss / take-profit are integers counting tenths of  *)
(* a percent.  Decimal arithmetic is exact, so it is modelled by integer   *)
(* arithmetic on these units.  The price change of updateAllData is        *)
(* computed on Python floats, which are modelled as binary64 values with   *)
(* round-to-nearest-even.                                                  *)
(*                                                                         *)
(* ControlSpec adds execute() and the calls of start() and stop() that     *)
(* find the bot already running or already stopped.  RefreshSpec is the    *)
(* calls of updateAllData made by one thread that does not halt inside     *)
(* them.  QuantitySpec is the quantity computation of buyStock and         *)
(* sellStock on its own, and SignalsSpec is strategy_signals of            *)
(* src/src/indicators.py on its own.                                       *)
(***************************************************************************)
EXTENDS Integers, Sequences, FiniteSets, TLC

\* -------------------------------------------------------------- constants

\* Decimal("0.001") of getActualTradePosition, in units of 10^-5.
Dust == 100

\* max_retries and the initial retry_delay (seconds) of updateAllData and of
\* the constructor's connectivity check.
max_retries == 5

initial_delay == 10

\* os.getenv('STOP_LOSS', 1.0) and os.getenv('TAKE_PROFIT', 1.0), in tenths of
\* a percent.
stop_loss == 10

take_profit == 10

\* The number of fractional digits of one unit: a unit is 10^-UnitDigits.
UnitDigits == 2 + 3

\* -------------------------------------------------------------- bounds

\* The ticker price, in cents per unit (50 is 50000.00 per whole base asset).
PriceCU == 50

\* History counters count up to Cap and stay there.
Cap == 2

\* The exchange accepts at most MaxOrders orders in one run, and rejects every
\* order after that.
MaxOrders == 3

\* The longest condition series given to strategy_signals, apart from the
\* series of eight bars ExampleBars.
MaxBars == 4

\* The signal pass is made at most Passes times on one frame.
Passes == 2

\* -------------------------------------------------------------- inputs

\* Symbol rules (get_symbol_info): listed is FALSE when the pair (or its
\* LOT_SIZE filter) is not in the exchange information; hasNotional is FALSE
\* when the pair has no MIN_NOTIONAL filter.  Quantities in units, minNotional
\* in cents.
RulesFine ==
    [listed |-> TRUE, stepSize |-> 1, minQty |-> 10, maxQty |-> 900000000,
     hasNotional |-> TRUE, minNotional |-> 1000]

RulesCoarse ==
    [listed |-> TRUE, stepSize |-> 100, minQty |-> 1000, maxQty |-> 900000000,
     hasNotional |-> FALSE, minNotional |-> 0]

RulesWide ==
    [listed |-> TRUE, stepSize |-> 1000, minQty |-> 1000, maxQty |-> 900000000,
     hasNotional |-> FALSE, minNotional |-> 0]

RulesUnlisted ==
    [listed |-> FALSE, stepSize |-> 1, minQty |-> 10, maxQty |-> 900000000,
     hasNotional |-> FALSE, minNotional |-> 0]

\* The runs of the program that are explored: the credentials, the symbol
\* rules, the configured percentage and the account's balances at start-up.
Scenarios ==
    { [keys |-> TRUE,  rules |-> RulesFine,     pct |-> 2,  base |-> 80,  quote |-> 51000],
      [keys |-> TRUE,  rules |-> RulesFine,     pct |-> 50, base |-> 0,   quote |-> 100000],
      [keys |-> TRUE,  rules |-> RulesCoarse,   pct |-> 50, base |-> 150, quote |-> 100000],
      [keys |-> TRUE,  rules |-> RulesCoarse,   pct |-> 50, base |-> 0,   quote |-> 60000],
      [keys |-> TRUE,  rules |-> RulesWide,     pct |-> 50, base |-> 1500, quote |-> 0],
      [keys |-> TRUE,  rules |-> RulesUnlisted, pct |-> 50, base |-> 150, quote |-> 100000],
      [keys |-> FALSE, rules |-> RulesFine,     pct |-> 50, base |-> 0,   quote |-> 100000] }

\* What get_klines may return, reduced to what the bot reads of it: the
\* number of bars (1, or 2 standing for two or more), the last two closes in
\* tenths, and the last value of the signal column that strategy_signals
\* computes from the series.  A series of one bar has signal 0.
Markets ==
    [n : {2}, prev : {1000}, last : {992}, signal : {-1, 0, 1}]
    \cup {[n |-> 2, prev |-> 1000, last |-> 985, signal |-> 1],
          [n |-> 2, prev |-> 1000, last |-> 1015, signal |-> -1],
          [n |-> 2, prev |-> 100, last |-> 99, signal |-> 1],
          [n |-> 2, prev |-> 100, last |-> 101, signal |-> 1],
          [n |-> 1, prev |-> 1000, last |-> 1000, signal |-> 0]}

NoCandles == [n |-> 0, prev |-> 0, last |-> 0, signal |-> 0]

NoTrade == [side |-> "none", quantity |-> 0]

Threads == {"main", "ctl"}

\* -------------------------------------------------------------- Decimal

RECURSIVE Pow10(_)
Pow10(k) == IF k <= 0 THEN 1 ELSE 10 * Pow10(k - 1)

\* The number of trailing zero digits of a positive integer.
RECURSIVE TrailingZeros(_)
TrailingZeros(x) ==
    IF x > 0 /\ x % 10 = 0 THEN 1 + TrailingZeros(x \div 10) ELSE 0

\* Decimal.normalize().as_tuple().exponent of a step size given in units.
NormalizedExponent(step) == TrailingZeros(step) - UnitDigits

Abs(i) == IF i < 0 THEN 0 - i ELSE i

Max(a, b) == IF a >= b THEN a ELSE b

\* raw.quantize(normalized_step_size, rounding=ROUND_DOWN): raw cut to the
\* exponent of the normalized step size (not to a multiple of the step).
Quantize(raw, step) ==
    LET q == Pow10(TrailingZeros(step)) IN (raw \div q) * q

\* format(d, '.<places>f'): d rounded half-even to that many fractional digits.
FormatFixed(d, places) ==
    IF places >= UnitDigits THEN d
    ELSE LET q == Pow10(UnitDigits - places)
             lo == (d \div q) * q
             r == d - lo
         IN  IF 2 * r > q THEN lo + q
             ELSE IF 2 * r < q THEN lo
             ELSE IF (lo \div q) % 2 = 0 THEN lo ELSE lo + q

\* Lines 294 and 320: the number of fractional digits that format() is asked
\* for, abs(normalized_step_size.as_tuple().exponent).
decimal_places(step) == Abs(NormalizedExponent(step))

\* Lines 288-295 and 315-321: the quantity string of a raw quantity.
FormattedQuantity(raw, r) ==
    LET quantity_dec == Max(r.minQty, Quantize(raw, r.stepSize))
    IN  FormatFixed(quantity_dec, decimal_places(r.stepSize))

\* raw_quantity of _calculate_buy_quantity, from the quote balance in cents.
BuyRawQuantity(usdt_balance, pct) == (usdt_balance * pct) \div (100 * PriceCU)

\* _validate_trade_quantity without its MIN_NOTIONAL check.
_validate_trade_quantity_NoNotional(qty, r) ==
    /\ qty > 0
    /\ r.listed
    /\ qty >= r.minQty
    /\ qty <= r.maxQty
    /\ qty % r.stepSize = 0

\* _validate_trade_quantity: TRUE when no ValueError is raised.
_validate_trade_quantity(qty, r) ==
    /\ qty > 0
    /\ r.listed
    /\ qty >= r.minQty
    /\ qty <= r.maxQty
    /\ qty % r.stepSize = 0
    /\ (r.hasNotional => qty * PriceCU >= r.minNotional)

\* -------------------------------------------------------------- naturals
\* Natural numbers of any size (the significands of Python floats and their
\* exact sums, products and quotients), as sequences of limbs: digits in base
\* Limb, least significant first, without leading zero limbs; <<>> is 0.

Min(a, b) == IF a <= b THEN a ELSE b

RECURSIVE Pow2(_)
Pow2(k) == IF k <= 0 THEN 1 ELSE 2 * Pow2(k - 1)

\* The number of bits of a natural number that fits in one limb.
RECURSIVE IntBits(_)
IntBits(n) == IF n <= 0 THEN 0 ELSE 1 + IntBits(n \div 2)

\* The number of trailing zero bits of a positive integer.
RECURSIVE LowZeros(_)
LowZeros(n) == IF n > 0 /\ n % 2 = 0 THEN 1 + LowZeros(n \div 2) ELSE 0

Limb == 32 * 1024

LimbBits == IntBits(Limb) - 1

RECURSIVE Strip(_)
Strip(a) ==
    IF a # <<>> /\ a[Len(a)] = 0 THEN Strip(SubSeq(a, 1, Len(a) - 1)) ELSE a

RECURSIVE Limbs(_)
Limbs(n) == IF n <= 0 THEN <<>> ELSE <<n % Limb>> \o Limbs(n \div Limb)

Digit(a, i) == IF i <= Len(a) THEN a[i] ELSE 0

RECURSIVE AddFrom(_, _, _, _)
AddFrom(a, b, i, carry) ==
    IF i > Len(a) /\ i > Len(b) THEN (IF carry = 0 THEN <<>> ELSE <<carry>>)
    ELSE LET d == Digit(a, i) + Digit(b, i) + carry
         IN  <<d % Limb>> \o AddFrom(a, b, i + 1, d \div Limb)

Plus(a, b) == AddFrom(a, b, 1, 0)

RECURSIVE SubFrom(_, _, _, _)
SubFrom(a, b, i, borrow) ==
    IF i > Len(a) THEN <<>>
    ELSE LET d == a[i] - Digit(b, i) - borrow
         IN  <<IF d < 0 THEN d + Limb ELSE d>>
                 \o SubFrom(a, b, i + 1, IF d < 0 THEN 1 ELSE 0)

\* a - b, for a >= b.
Minus(a, b) == Strip(SubFrom(a, b, 1, 0))

RECURSIVE LessFrom(_, _, _)
LessFrom(a, b, i) ==
    IF i = 0 THEN FALSE
    ELSE IF a[i] # b[i] THEN a[i] < b[i]
    ELSE LessFrom(a, b, i - 1)

Less(a, b) == Len(a) < Len(b) \/ (Len(a) = Len(b) /\ LessFrom(a, b, Len(a)))

RECURSIVE MulFrom(_, _, _, _)
MulFrom(a, k, i, carry) ==
    IF i > Len(a) THEN (IF carry = 0 THEN <<>> ELSE <<carry>>)
    ELSE LET d == a[i] * k + carry
         IN  <<d % Limb>> \o MulFrom(a, k, i + 1, d \div Limb)

\* a * k, for 0 <= k <= Limb.
TimesSmall(a, k) == IF k = 0 THEN <<>> ELSE MulFrom(a, k, 1, 0)

RECURSIVE Times(_, _)
Times(a, b) ==
    IF a = <<>> \/ b = <<>> THEN <<>>
    ELSE Strip(Plus(TimesSmall(a, Head(b)), <<0>> \o Times(a, Tail(b))))

\* Quotient and remainder of the limbs i.. of a by d, for 0 < d < Limb.
RECURSIVE DivFrom(_, _, _)
DivFrom(a, d, i) ==
    IF i > Len(a) THEN [q |-> <<>>, r |-> 0]
    ELSE LET p == DivFrom(a, d, i + 1)
             x == p.r * Limb + a[i]
         IN  [q |-> <<x \div d>> \o p.q, r |-> x % d]

DivSmall(a, d) == LET p == DivFrom(a, d, 1) IN [q |-> Strip(p.q), r |-> p.r]

BitLen(a) ==
    IF a = <<>> THEN 0 ELSE LimbBits * (Len(a) - 1) + IntBits(a[Len(a)])

\* a * 2^k.
ShiftLeft(a, k) ==
    IF a = <<>> THEN <<>>
    ELSE [i \in 1..(k \div LimbBits) |-> 0] \o TimesSmall(a, Pow2(k % LimbBits))

\* a \div 2^k, and whether a one bit was shifted out.
ShiftRight(a, k) ==
    LET n == Min(k \div LimbBits, Len(a))
        p == DivSmall(SubSeq(a, n + 1, Len(a)), Pow2(k % LimbBits))
    IN  [q |-> p.q, lost |-> p.r # 0 \/ \E i \in 1..n : a[i] # 0]

\* -------------------------------------------------------------- float
\* Python floats (IEEE 754 binary64, round to nearest, ties to even) in the
\* range of prices and percentages, where no overflow and no subnormal
\* occurs: [neg, m, e] is (-1)^neg * m * 2^e with m odd and below
\* 2^Precision, or m = 0.

Precision == 53

FZero == [neg |-> FALSE, m |-> <<>>, e |-> 0]

\* m * 2^e with the trailing zero bits of m moved into the exponent.
Canon(neg, m, e) ==
    IF m = <<>> THEN FZero
    ELSE LET z == CHOOSE i \in 0..(Len(m) - 1) :
                      m[i + 1] # 0 /\ \A k \in 1..i : m[k] = 0
             rest == SubSeq(m, z + 1, Len(m))
             t == LowZeros(rest[1])
         IN  [neg |-> neg, m |-> DivSmall(rest, Pow2(t)).q,
              e |-> e + z * LimbBits + t]

\* The float nearest to (-1)^neg * (m + f) * 2^e, where 0 <= f < 1, and
\* f > 0 exactly when inexact (m then has more than Precision + 1 bits).
Round(neg, m, e, inexact) ==
    LET len == BitLen(m) IN
    IF len <= Precision THEN Canon(neg, m, e)
    ELSE LET s == ShiftRight(m, len - Precision - 1)
             h == DivSmall(s.q, 2)
             up == h.r = 1 /\ (inexact \/ s.lost \/ h.q[1] % 2 = 1)
         IN  Canon(neg, IF up THEN Plus(h.q, <<1>>) ELSE h.q, e + len - Precision)

\* float("n / 10^k" written as a decimal string), for n >= 0 and 10^k < Limb.
FromDecimal(n, k) ==
    LET p == DivSmall(ShiftLeft(Limbs(n), 5 * LimbBits), Pow10(k))
    IN  Round(FALSE, p.q, 0 - 5 * LimbBits, p.r # 0)

FNeg(a) == IF a.m = <<>> THEN a ELSE [a EXCEPT !.neg = ~@]

FAdd(a, b) ==
    LET e == Min(a.e, b.e)
        x == ShiftLeft(a.m, a.e - e)
        y == ShiftLeft(b.m, b.e - e)
    IN  IF a.neg = b.neg THEN Round(a.neg, Plus(x, y), e, FALSE)
        ELSE IF Less(x, y) THEN Round(b.neg, Minus(y, x), e, FALSE)
        ELSE Round(a.neg, Minus(x, y), e, FALSE)

FSub(a, b) == FAdd(a, FNeg(b))

FMul(a, b) == Round(a.neg # b.neg, Times(a.m, b.m), a.e + b.e, FALSE)

\* a / b, for a divisor whose odd significand fits in one limb (a whole
\* number below Limb, or such a number times a power of two).
FDiv(a, b) ==
    LET p == DivSmall(ShiftLeft(a.m, 5 * LimbBits), b.m[1])
    IN  Round(a.neg # b.neg, p.q, a.e - b.e - 5 * LimbBits, p.r # 0)

\* a <= b: the sign of the exact difference survives the rounding.
FLeq(a, b) == LET d == FSub(a, b) IN d.m = <<>> \/ d.neg

\* The series the exchange may return, enumerated.
Series == {c : c \in Markets}

\* Line 139, for every series c the exchange may return, one operation at a
\* time: float(close) of the closes (given in tenths) as pd.to_numeric reads
\* them, float(current_price) - float(entry_price), the quotient by
\* float(entry_price), and the product by 100.
Closes ==
    [x \in {c.last : c \in Markets} \cup {c.prev : c \in Markets} |->
        FromDecimal(x, 1)]

Differences == [c \in Series |-> FSub(Closes[c.last], Closes[c.prev])]

Ratios == [c \in Series |-> FDiv(Differences[c], Closes[c.prev])]

PriceChanges == [c \in Series |-> FMul(Ratios[c], FromDecimal(100, 0))]

price_change(c) == PriceChanges[c]

\* Lines 140 and 143: price_change <= -self.stop_loss and
\* price_change >= self.take_profit.
StopLossHits ==
    [c \in Series |-> FLeq(price_change(c), FNeg(FromDecimal(stop_loss, 1)))]

TakeProfitHits ==
    [c \in Series |-> FLeq(FromDecimal(take_profit, 1), price_change(c))]

StopLossHit(c) == StopLossHits[c]

TakeProfitHit(c) == TakeProfitHits[c]

\* -------------------------------------------------------------- state

VARIABLES
    keys,                       \* config.api_key and config.secret_key are set
    rules,                      \* the exchange's rules for the pair
    traded_percentage,          \* self.traded_percentage
    exBase, exQuote,            \* the exchange's free balances of the account
    _running,                   \* self._running
    actual_trade_position,      \* self.actual_trade_position
    last_stock_account_balance, \* self.last_stock_account_balance
    account_quote,              \* the quote asset's free balance in self.account_data
    candle_data,                \* self.candle_data
    last_trade,                 \* self.last_trade
    loc,                        \* per thread: position in the code and locals
    prevSide, lastSide,         \* history: sides of the last two accepted orders
    iterOrders,                 \* history: orders accepted in this loop iteration
    nOrders,                    \* history: orders accepted in this run
    stop_long,                  \* history: the last stop() found the bot Long
    sells_since_stop,           \* history: Sell orders accepted since that stop()
    order_logs,                 \* "ORDEM EXECUTADA" entries in trading_bot.log
    order_files,                \* order_<id>.json files in the log directory
    unconfirmed,                \* history: an order was accepted since the last
                                \* fetch of self.account_data
    df,                         \* the columns strategy_signals works on
    df_pc,                      \* the position in strategy_signals
    returned                    \* the columns strategy_signals has returned

vars ==
    <<keys, rules, traded_percentage, exBase, exQuote, _running,
      actual_trade_position, last_stock_account_balance, account_quote,
      candle_data, last_trade, loc, prevSide, lastSide, iterOrders, nOrders,
      stop_long, sells_since_stop, order_logs, order_files, unconfirmed, df,
      df_pc, returned>>

bot ==
    <<keys, rules, traded_percentage, exBase, exQuote, _running,
      actual_trade_position, last_stock_account_balance, account_quote,
      candle_data, last_trade, loc, prevSide, lastSide, iterOrders, nOrders,
      stop_long, sells_since_stop, order_logs, order_files, unconfirmed>>

signals == <<df, df_pc, returned>>

\* The DataFrame before strategy_signals is called on it.
NoFrame ==
    [close |-> <<>>, buy_condition |-> <<>>, sell_condition |-> <<>>,
     buy_crossover |-> <<>>, sell_crossover |-> <<>>, signal |-> <<>>]

config == <<keys, rules, traded_percentage>>

exchange == <<exBase, exQuote>>

account == <<last_stock_account_balance, account_quote>>

logs == <<order_logs, order_files>>

history ==
    <<prevSide, lastSide, iterOrders, nOrders, stop_long, sells_since_stop, logs,
      unconfirmed>>

Inc(c) == IF c < Cap THEN c + 1 ELSE c

\* The locals of a thread at position p of the code, called from f: attempt
\* and retry_delay of the retry loops, tries and slept (history: the pings
\* made and the seconds slept by the retry loop of this call), qty (the quantity being computed or submitted),
\* side and reason of the buy/sell in progress, tp_pending (the take-profit
\* condition of line 143 is still to be acted on), submits (history:
\* create_order calls of this buyStock/sellStock invocation), result
\* (history: how the buyStock/sellStock that just returned ended: "order",
\* or None after "api_error" or "value_error"), raw (history: the raw
\* quantity of the quantity that passed the validation), raised (history:
\* the exception that brought the thread here, if one did), caught (history:
\* the level, "info" or "error", of the entry that trade_logger wrote for the
\* last exception that a handler of the bot caught in this call), sent
\* (history: the create_order calls made since the call of updateAllData in
\* progress was entered).
NoError ==
    [exhausted |-> FALSE, attempt |-> 0, after |-> 0, slept |-> 0, at |-> "none"]

Fresh(p, f) ==
    [pc |-> p, frame |-> f, attempt |-> 0, retry_delay |-> initial_delay,
     tries |-> 0, slept |-> 0, qty |-> 0, side |-> "none", reason |-> "none",
     tp_pending |-> FALSE, submits |-> 0, result |-> "none", raw |-> 0,
     raised |-> NoError, caught |-> "none", sent |-> 0]

BotInit ==
    /\ \E s \in Scenarios :
          /\ keys = s.keys
          /\ rules = s.rules
          /\ traded_percentage = s.pct
          /\ exBase = s.base
          /\ exQuote = s.quote
    /\ _running = FALSE
    /\ actual_trade_position = FALSE
    /\ last_stock_account_balance = 0
    /\ account_quote = 0
    /\ candle_data = NoCandles
    /\ last_trade = NoTrade
    /\ loc = [t \in Threads |-> IF t = "main" THEN Fresh("new", "ctor")
                                              ELSE Fresh("idle", "none")]
    /\ prevSide = "none"
    /\ lastSide = "none"
    /\ iterOrders = 0
    /\ nOrders = 0
    /\ stop_long = FALSE
    /\ sells_since_stop = 0
    /\ order_logs = 0
    /\ order_files = 0
    /\ unconfirmed = FALSE

Init == BotInit /\ df = NoFrame /\ df_pc = "none" /\ returned = <<>>

Goto(t, l) == loc' = [loc EXCEPT ![t] = l]

\* -------------------------------------------------------------- exceptions

\* Where an exception that leaves the code called from frame f is handled:
\* the constructor re-raises (main() logs "Erro fatal" and ends), _run_loop
\* catches it at line 438 and sleeps, execute catches it at line 470 and
\* sleeps, stop() lets it reach its caller.
RaiseTarget_NoCatch(f) ==
    CASE f = "ctor" -> "dead"
      [] f \in {"u1", "trade", "u2"} -> "exited"
      [] f \in {"exec", "exect"} -> "exec_cooldown"
      [] f = "stop" -> "idle"
      [] OTHER -> "dead"

RaiseTarget(f) ==
    CASE f = "ctor" -> "dead"
      [] f \in {"u1", "trade", "u2"} -> "cooldown"
      [] f \in {"exec", "exect"} -> "exec_cooldown"
      [] f = "stop" -> "idle"
      [] OTHER -> "dead"

\* An exception raised at l meets a handler of the bot, all of which call
\* trade_logger.log_error: lines 94-96 of the constructor's connectivity
\* check, lines 154-159 of updateAllData (the risk test's sellStock included),
\* lines 438-440 of _run_loop, lines 470-472 of execute.  stop() has no
\* handler.
Handled(l) ==
    \/ l.pc \in {"ctor", "acct", "mkt", "risk"}
    \/ l.reason \in {"sl", "tp"}
    \/ l.frame \in {"u1", "trade", "u2", "exec", "exect"}

\* An exception leaves the call in progress: the handler it reaches gets the
\* exception of attempt number l.attempt + 1, raised at position l.pc after
\* l.tries attempts and l.slept seconds of sleep.
Raise(l) ==
    [Fresh(RaiseTarget(l.frame), "none") EXCEPT
        !.raised = [exhausted |-> FALSE, attempt |-> l.attempt + 1,
                    after |-> l.tries, slept |-> l.slept, at |-> l.pc],
        !.caught = IF Handled(l) THEN "error" ELSE l.caught]

\* The last attempt of a retry loop that sleeps once more before it raises.
GiveUp_AfterSleep(l) ==
    [Raise(l) EXCEPT !.raised.exhausted = TRUE,
                     !.raised.slept = @ + l.retry_delay]

\* Lines 94-96 and 154-156: the last attempt failed; the bare raise re-raises
\* the exception of that attempt, without a sleep.
GiveUp(l) == [Raise(l) EXCEPT !.raised.exhausted = TRUE]

\* The retry of lines 149-156 without the attempt limit.
RetryOrRaise_Unbounded(l) ==
    [l EXCEPT !.pc = "acct", !.attempt = @ + 1, !.retry_delay = @ * 2,
              !.slept = @ + l.retry_delay, !.caught = "info"]

\* The retry of lines 149-156 without the doubling of retry_delay.
RetryOrRaise_NoBackoff(l) ==
    IF l.attempt < max_retries - 1
    THEN [l EXCEPT !.pc = "acct", !.attempt = @ + 1, !.slept = @ + l.retry_delay,
                   !.caught = "info"]
    ELSE GiveUp(l)

\* Lines 149-156: a BinanceAPIException in attempt number l.attempt; before
\* the last attempt the failure is written with log_info (line 151).
RetryOrRaise(l) ==
    IF l.attempt < max_retries - 1
    THEN [l EXCEPT !.pc = "acct", !.attempt = @ + 1, !.retry_delay = @ * 2,
                   !.slept = @ + l.retry_delay, !.caught = "info"]
    ELSE GiveUp(l)

\* -------------------------------------------------------------- constructor

\* A constructor without the test of lines 71-72.
ctor_begin_NoCheck ==
    /\ loc["main"].pc = "new"
    /\ Goto("main", Fresh("ctor", "ctor"))
    /\ UNCHANGED <<config, signals, exchange, _running, actual_trade_position, account,
                   candle_data, last_trade, history>>

\* Lines 71-72: the credentials are checked before the client is created.
ctor_begin ==
    /\ loc["main"].pc = "new"
    /\ Goto("main", IF keys THEN Fresh("ctor", "ctor") ELSE Fresh("dead", "none"))
    /\ UNCHANGED <<config, signals, exchange, _running, actual_trade_position, account,
                   candle_data, last_trade, history>>

\* Lines 87-99: one attempt of the connectivity check; any Exception counts,
\* and before the last attempt it is written with log_info (line 97).
ctor_ping ==
    LET l == [loc["main"] EXCEPT !.tries = @ + 1] IN
    /\ l.pc = "ctor"
    /\ \E ok \in BOOLEAN :
          Goto("main",
               IF ok THEN [l EXCEPT !.pc = "ctor_ok"]
               ELSE IF l.attempt = max_retries - 1 THEN GiveUp(l)
               ELSE [l EXCEPT !.attempt = @ + 1, !.retry_delay = @ * 2,
                              !.slept = @ + l.retry_delay, !.caught = "info"])
    /\ UNCHANGED <<config, signals, exchange, _running, actual_trade_position, account,
                   candle_data, last_trade, history>>

\* Line 100: the constructor calls updateAllData.
ctor_connected ==
    /\ loc["main"].pc = "ctor_ok"
    /\ Goto("main", Fresh("acct", "ctor"))
    /\ UNCHANGED <<config, signals, exchange, _running, actual_trade_position, account,
                   candle_data, last_trade, history>>

\* -------------------------------------------------------------- buy / sell

\* sellStock, lines 221-224: the guard and the read of the raw quantity.
sellStock(l, why, pending) ==
    [l EXCEPT !.pc = "fetch", !.qty = last_stock_account_balance,
              !.side = "SELL", !.reason = why, !.tp_pending = pending,
              !.submits = 0, !.result = "none"]

\* buyStock, lines 197-200 and 272-276: the guard and the read of the quote
\* balance of self.account_data.
buyStock(l) ==
    [l EXCEPT !.pc = "fetch", !.qty = account_quote, !.side = "BUY",
              !.reason = "buy", !.tp_pending = FALSE, !.submits = 0,
              !.result = "none"]

\* Where buyStock / sellStock returns to with result res (an order or None),
\* pos being self.actual_trade_position at that moment: line 143 and line 147
\* of updateAllData, line 436 of _run_loop, line 469 of execute, line 408 of
\* stop.  A None comes from a handler of buyStock / sellStock, which calls
\* log_error (lines 213, 216, 237, 240).
AfterTrade(l, pos, res) ==
    LET log == IF res = "order" THEN l.caught ELSE "error" IN
    CASE l.reason = "sl" /\ l.tp_pending /\ pos ->
             [l EXCEPT !.pc = "fetch", !.qty = last_stock_account_balance,
                       !.reason = "tp", !.tp_pending = FALSE, !.submits = 0,
                       !.caught = log]
      [] l.reason \in {"sl", "tp"} ->
             [l EXCEPT !.pc = "uret", !.qty = 0, !.side = "none",
                       !.reason = "none", !.tp_pending = FALSE, !.result = res,
                       !.caught = log]
      [] l.reason = "stop" ->
             [Fresh("stop_upd", "stop") EXCEPT !.submits = l.submits,
                                               !.result = res, !.caught = log]
      [] l.frame = "exect" ->
             [Fresh("exec_sleep", "exect") EXCEPT !.submits = l.submits,
                                                  !.result = res, !.caught = log]
      [] OTHER ->
             [Fresh("sleep2", "trade") EXCEPT !.submits = l.submits,
                                              !.result = res, !.caught = log]

\* The exchange reads of the quantity computation and of the validation
\* (get_symbol_ticker, get_exchange_info): a BinanceAPIException is caught by
\* buyStock / sellStock, which returns None; any other exception leaves it.
TradeFetch(t) ==
    LET l == loc[t] IN
    /\ l.pc = "fetch"
    /\ \E o \in {"ok", "api", "other"} :
          Goto(t, CASE o = "ok" -> [l EXCEPT !.pc = "validate"]
                    [] o = "api" -> AfterTrade(l, actual_trade_position, "api_error")
                    [] OTHER -> Raise(l))
    /\ UNCHANGED <<config, signals, exchange, _running, actual_trade_position, account,
                   candle_data, last_trade, history>>

\* The raw quantity of the buy or sell in progress.
RawQuantity(l) ==
    IF l.side = "BUY" THEN BuyRawQuantity(l.qty, traded_percentage) ELSE l.qty

\* The quantity computation without the call of _validate_trade_quantity.
QuantityAccepted_Unvalidated(l) == rules.listed

\* _calculate_buy_quantity / _calculate_sell_quantity and
\* _validate_trade_quantity: TRUE when neither raises ValueError.
QuantityAccepted(l) ==
    /\ rules.listed
    /\ _validate_trade_quantity(FormattedQuantity(RawQuantity(l), rules), rules)

\* Lines 200-201 and 224-225, 215-217 and 239-241: a ValueError makes
\* buyStock / sellStock return None.
TradeValidate(t) ==
    LET l == loc[t] IN
    /\ l.pc = "validate"
    /\ Goto(t, IF QuantityAccepted(l)
               THEN [l EXCEPT !.pc = "submit", !.raw = RawQuantity(l),
                              !.qty = FormattedQuantity(RawQuantity(l), rules)]
               ELSE AfterTrade(l, actual_trade_position, "value_error"))
    /\ UNCHANGED <<config, signals, exchange, _running, actual_trade_position, account,
                   candle_data, last_trade, history>>

\* The exchange fills a market order when the account holds the funds.
Funded(l) ==
    /\ nOrders < MaxOrders
    /\ IF l.side = "BUY" THEN l.qty * PriceCU <= exQuote ELSE l.qty <= exBase

\* A rejected create_order that is submitted again.
AfterRejectedOrder_Resubmit(l, pos) == [l EXCEPT !.submits = Inc(@)]

\* A handler of lines 212-214, 236-238 that returns None and logs nothing.
AfterRejectedOrder_Silent(l, pos) ==
    [AfterTrade([l EXCEPT !.submits = Inc(@)], pos, "api_error") EXCEPT
        !.caught = l.caught]

\* A sellStock of the risk test without the handler of lines 236-238: the
\* BinanceAPIException of create_order reaches the retry of updateAllData.
AfterRejectedOrder_Propagates(l, pos) ==
    IF l.reason \in {"sl", "tp"}
    THEN RetryOrRaise([l EXCEPT !.submits = Inc(@)])
    ELSE AfterTrade([l EXCEPT !.submits = Inc(@)], pos, "api_error")

\* buyStock / sellStock after a create_order that raised BinanceAPIException
\* (lines 212-214, 236-238).
AfterRejectedOrder(l, pos) ==
    AfterTrade([l EXCEPT !.submits = Inc(@)], pos, "api_error")

\* Lines 421-426 and 430-435, 453-468: _run_loop and execute record the
\* order they got.
RecordTrade(l) ==
    IF l.frame \in {"trade", "exect"} THEN [side |-> l.side, quantity |-> l.qty]
    ELSE last_trade

\* createLogOrder, lines 377-394: one "ORDEM EXECUTADA" entry is written with
\* trade_logger.log_info.  TradeLogger.log_order (src/logger.py, lines 98-138),
\* the only caller of _save_complete_order, is called from nowhere: no
\* order_<id>.json file is written.
createLogOrder(n) == n + 1

\* create_order (lines 202-211, 226-235) and the caller's use of the order.
TradeSubmit(t) ==
    LET l == [loc[t] EXCEPT !.sent = Inc(@)] IN
    /\ l.pc = "submit"
    /\ \/ /\ Funded(l)
          /\ exBase' = IF l.side = "BUY" THEN exBase + l.qty ELSE exBase - l.qty
          /\ exQuote' = IF l.side = "BUY" THEN exQuote - l.qty * PriceCU
                                          ELSE exQuote + l.qty * PriceCU
          /\ actual_trade_position' = (l.side = "BUY")
          /\ last_trade' = RecordTrade(l)
          /\ prevSide' = lastSide
          /\ lastSide' = l.side
          /\ iterOrders' = IF l.frame \in {"u1", "trade", "u2"} THEN Inc(iterOrders)
                                                             ELSE iterOrders
          /\ nOrders' = nOrders + 1
          /\ order_logs' = createLogOrder(order_logs)
          /\ order_files' = order_files
          /\ unconfirmed' = TRUE
          /\ sells_since_stop' =
                 IF l.side = "SELL" THEN Inc(sells_since_stop) ELSE sells_since_stop
          /\ Goto(t, AfterTrade([l EXCEPT !.submits = Inc(@)], l.side = "BUY", "order"))
          /\ UNCHANGED <<config, signals, _running, account, candle_data, stop_long>>
       \/ /\ Goto(t, AfterRejectedOrder(l, actual_trade_position))
          /\ UNCHANGED <<config, signals, exchange, _running, actual_trade_position,
                         account, candle_data, last_trade, history>>
       \/ /\ Goto(t, Raise(l))
          /\ UNCHANGED <<config, signals, exchange, _running, actual_trade_position,
                         account, candle_data, last_trade, history>>


\* -------------------------------------------------------------- updateAllData

\* A position test that counts a balance of exactly 0.001 as Long.
getActualTradePosition_Inclusive(balance) == balance >= Dust

\* getActualTradePosition, line 172.
getActualTradePosition(balance) == balance > Dust

\* Lines 114-118: ping, get_account, and the position derived from the
\* balance.  A BinanceAPIException is retried, any other exception is raised
\* at once (lines 157-159).
UpdAccount(t) ==
    LET l == [loc[t] EXCEPT !.tries = @ + 1] IN
    /\ l.pc = "acct"
    /\ \/ /\ last_stock_account_balance' = exBase
          /\ account_quote' = exQuote
          /\ actual_trade_position' = getActualTradePosition(exBase)
          /\ unconfirmed' = FALSE
          /\ Goto(t, [l EXCEPT !.pc = "mkt"])
       \/ /\ \E o \in {"api", "other"} :
                Goto(t, IF o = "api" THEN RetryOrRaise(l) ELSE Raise(l))
          /\ UNCHANGED <<actual_trade_position, account, unconfirmed>>
    /\ UNCHANGED <<config, signals, exchange, _running, candle_data, last_trade,
                   prevSide, lastSide, iterOrders, nOrders, stop_long,
                   sells_since_stop, logs>>

\* Lines 136-147: the stop-loss / take-profit check on the series c just
\* fetched.  iloc[-2] of a one-bar series raises IndexError (line 138).
RiskCheck(l, c) ==
    IF actual_trade_position /\ c.n > 0
    THEN IF c.n < 2 THEN Raise([l EXCEPT !.pc = "risk"])
         ELSE IF StopLossHit(c) THEN sellStock(l, "sl", TakeProfitHit(c))
         ELSE IF TakeProfitHit(c) THEN sellStock(l, "tp", FALSE)
         ELSE [l EXCEPT !.pc = "uret"]
    ELSE [l EXCEPT !.pc = "uret"]

\* Lines 119-147: get_klines, the ticker read while Flat, and the risk test.
UpdMarket(t) ==
    LET l == loc[t] IN
    /\ l.pc = "mkt"
    /\ \/ \E c \in Markets :
             /\ candle_data' = c
             /\ Goto(t, RiskCheck(l, c))
       \/ /\ \E o \in {"api", "other"} :
                Goto(t, IF o = "api" THEN RetryOrRaise(l) ELSE Raise(l))
          /\ UNCHANGED candle_data
    /\ UNCHANGED <<config, signals, exchange, _running, actual_trade_position, account,
                   last_trade, history>>

\* Line 147: updateAllData returns to its caller: the constructor (line 101),
\* _run_loop (lines 414 and 437, the latter followed by the loop test),
\* execute (line 445), stop.
AfterUpdate(f) ==
    CASE f = "ctor" -> Fresh("ready", "none")
      [] f = "u1" -> Fresh("decide", "trade")
      [] f = "u2" -> Fresh("head", "none")
      [] f = "exec" -> Fresh("exec_decide", "exect")
      [] f = "stop" -> Fresh("stop_done", "none")
      [] OTHER -> Fresh("dead", "none")

UpdReturn(t) ==
    /\ loc[t].pc = "uret"
    /\ Goto(t, AfterUpdate(loc[t].frame))
    /\ UNCHANGED <<config, signals, exchange, _running, actual_trade_position, account,
                   candle_data, last_trade, history>>

\* -------------------------------------------------------------- the loop

\* start, lines 396-400, called once the bot is constructed or after the loop
\* has returned.
start ==
    /\ loc["main"].pc \in {"ready", "exited"}
    /\ loc["ctl"].pc = "idle"
    /\ ~_running
    /\ _running' = TRUE
    /\ stop_long' = FALSE
    /\ sells_since_stop' = 0
    /\ Goto("main", Fresh("head", "none"))
    /\ UNCHANGED <<config, signals, exchange, actual_trade_position, account, candle_data,
                   last_trade, prevSide, lastSide, iterOrders, nOrders, logs,
                   unconfirmed>>

\* Line 411: the loop test; line 413: the first refresh of an iteration.
LoopHead ==
    /\ loc["main"].pc = "head"
    /\ Goto("main", IF _running THEN Fresh("acct", "u1") ELSE Fresh("exited", "none"))
    /\ iterOrders' = 0
    /\ UNCHANGED <<config, signals, exchange, _running, actual_trade_position, account,
                   candle_data, last_trade, prevSide, lastSide, nOrders, stop_long,
                   sells_since_stop, logs, unconfirmed>>

\* A decision that sells whenever the bot is Long.
TradeDecision_SellWhenLong(l) ==
    LET trade_decision == candle_data.signal = 1 IN
    IF ~actual_trade_position /\ trade_decision THEN buyStock(l)
    ELSE IF actual_trade_position
         THEN sellStock(l, IF candle_data.signal = -1 THEN "sell" ELSE "hold", FALSE)
         ELSE Fresh("sleep2", "trade")

\* Lines 414-428: the signal of the last bar and the decision.
TradeDecision(l) ==
    LET trade_decision == candle_data.signal = 1 IN
    IF ~actual_trade_position /\ trade_decision THEN buyStock(l)
    ELSE IF actual_trade_position /\ ~trade_decision
         THEN sellStock(l, IF candle_data.signal = -1 THEN "sell" ELSE "hold", FALSE)
         ELSE Fresh("sleep2", "trade")

Decide ==
    /\ loc["main"].pc = "decide"
    /\ Goto("main", TradeDecision(loc["main"]))
    /\ UNCHANGED <<config, signals, exchange, _running, actual_trade_position, account,
                   candle_data, last_trade, history>>

\* Lines 436-437: time.sleep(2), then the second refresh.
Sleep2 ==
    /\ loc["main"].pc = "sleep2"
    /\ Goto("main", Fresh("acct", "u2"))
    /\ UNCHANGED <<config, signals, exchange, _running, actual_trade_position, account,
                   candle_data, last_trade, history>>

\* Lines 438-440: after the error is logged, time.sleep(10), then the loop test.
Cooldown ==
    /\ loc["main"].pc = "cooldown"
    /\ Goto("main", Fresh("head", "none"))
    /\ UNCHANGED <<config, signals, exchange, _running, actual_trade_position, account,
                   candle_data, last_trade, history>>

\* -------------------------------------------------------------- stop

\* stop, lines 402-408, called while the bot runs.
StopEntry(l) ==
    IF actual_trade_position THEN sellStock(Fresh(l.pc, "stop"), "stop", FALSE)
    ELSE Fresh("stop_upd", "stop")

stop ==
    /\ loc["ctl"].pc = "idle"
    /\ _running
    /\ _running' = FALSE
    /\ stop_long' = actual_trade_position
    /\ sells_since_stop' = 0
    /\ Goto("ctl", StopEntry(loc["ctl"]))
    /\ UNCHANGED <<config, signals, exchange, actual_trade_position, account, candle_data,
                   last_trade, prevSide, lastSide, iterOrders, nOrders, logs,
                   unconfirmed>>

\* Line 408: stop calls updateAllData.
StopRefresh ==
    /\ loc["ctl"].pc = "stop_upd"
    /\ Goto("ctl", Fresh("acct", "stop"))
    /\ UNCHANGED <<config, signals, exchange, _running, actual_trade_position, account,
                   candle_data, last_trade, history>>

\* stop has returned to its caller.
StopDone ==
    /\ loc["ctl"].pc = "stop_done"
    /\ Goto("ctl", Fresh("idle", "none"))
    /\ UNCHANGED <<config, signals, exchange, _running, actual_trade_position, account,
                   candle_data, last_trade, history>>

\* -------------------------------------------------------------- calls of the dashboard
\* src/streamlit_app.py, lines 236-246: execute() is called by the thread that
\* called start(), once start() has returned (or before it is called); start()
\* and stop() are also called when the bot is already in the state asked for.

\* execute, lines 442-444: the refresh that begins a single cycle.
execute ==
    /\ loc["main"].pc \in {"ready", "exited"}
    /\ Goto("main", Fresh("acct", "exec"))
    /\ UNCHANGED <<config, signals, exchange, _running, actual_trade_position,
                   account, candle_data, last_trade, history>>

\* Lines 445-468: the run state is tested after the refresh, then the signal.
ExecDecide ==
    LET l == loc["main"]
        d == TradeDecision(l)
    IN  /\ l.pc = "exec_decide"
        /\ Goto("main", IF ~_running THEN Fresh("ready", "none")
                         ELSE IF d.pc = "sleep2" THEN Fresh("exec_sleep", "exect")
                         ELSE d)
        /\ UNCHANGED <<config, signals, exchange, _running,
                       actual_trade_position, account, candle_data, last_trade,
                       history>>

\* Line 469, time.sleep(2), and lines 470-472, the error logged and
\* time.sleep(10): execute returns.
ExecReturn ==
    /\ loc["main"].pc \in {"exec_sleep", "exec_cooldown"}
    /\ Goto("main", Fresh("ready", "none"))
    /\ UNCHANGED <<config, signals, exchange, _running, actual_trade_position,
                   account, candle_data, last_trade, history>>

\* start, line 397, called from the control thread while the loop runs: the
\* test fails and start returns.
start_running ==
    /\ loc["ctl"].pc = "idle"
    /\ _running
    /\ Goto("ctl", Fresh("start_done", "none"))
    /\ UNCHANGED <<config, signals, exchange, _running, actual_trade_position,
                   account, candle_data, last_trade, history>>

\* stop, line 403, called while the bot is stopped: the test fails and stop
\* returns.
stop_stopped ==
    /\ loc["ctl"].pc = "idle"
    /\ loc["main"].frame # "ctor"
    /\ loc["main"].pc # "dead"
    /\ ~_running
    /\ stop_long' = FALSE
    /\ sells_since_stop' = 0
    /\ Goto("ctl", Fresh("stop_done", "none"))
    /\ UNCHANGED <<config, signals, exchange, _running, actual_trade_position,
                   account, candle_data, last_trade, prevSide, lastSide,
                   iterOrders, nOrders, logs, unconfirmed>>

\* start has returned to its caller.
StartDone ==
    /\ loc["ctl"].pc = "start_done"
    /\ Goto("ctl", Fresh("idle", "none"))
    /\ UNCHANGED <<config, signals, exchange, _running, actual_trade_position,
                   account, candle_data, last_trade, history>>

\* -------------------------------------------------------------- quantity strings
\* buyStock and sellStock on their own, for step sizes from 0.00001 to 10 with
\* minQty equal to the step size, and for the percentages that
\* TradingConfig.from_env (lines 33-46) may deliver: float() of the
\* environment variable, whatever its value.

StepSizes == {1, 10, 100, 1000, 100000, 1000000}

Percentages == {0, 50, 100}

StepRules ==
    { [listed |-> TRUE, stepSize |-> st, minQty |-> st, maxQty |-> 900000000,
       hasNotional |-> FALSE, minNotional |-> 0] : st \in StepSizes }

\* A bot whose account was just fetched is about to compute the quantity of a
\* Sell (when Long) or of a Buy (when Flat).
QuantityInit ==
    /\ keys = TRUE
    /\ rules \in StepRules
    /\ traded_percentage \in Percentages
    /\ exBase \in {0, 100, 123456, 2500000, 12345678}
    /\ exQuote \in {60000, 1234567, 20000000}
    /\ last_stock_account_balance = exBase
    /\ account_quote = exQuote
    /\ actual_trade_position = getActualTradePosition(exBase)
    /\ _running = TRUE
    /\ candle_data = NoCandles
    /\ last_trade = NoTrade
    /\ loc = [t \in Threads |->
                 IF t = "main"
                 THEN [(IF actual_trade_position
                        THEN sellStock(Fresh("decide", "trade"), "sell", FALSE)
                        ELSE buyStock(Fresh("decide", "trade")))
                       EXCEPT !.pc = "validate"]
                 ELSE Fresh("idle", "none")]
    /\ prevSide = "none"
    /\ lastSide = "none"
    /\ iterOrders = 0
    /\ nOrders = 0
    /\ stop_long = FALSE
    /\ sells_since_stop = 0
    /\ order_logs = 0
    /\ order_files = 0
    /\ unconfirmed = FALSE
    /\ df = NoFrame
    /\ df_pc = "none"
    /\ returned = <<>>

QuantityNext ==
    \/ TradeValidate("main")
    \/ TradeSubmit("main")

QuantitySpec == QuantityInit /\ [][QuantityNext]_vars

\* -------------------------------------------------------------- strategy_signals
\* src/src/indicators.py, strategy_signals, from the two conditions on.  A bar
\* is "buy" when buy_condition holds on it (ema_7 < ema_25 and macd_line >
\* signal_line), "sell" when sell_condition holds (ema_7 > ema_25 and
\* macd_line < signal_line), "none" otherwise; the conditions exclude each
\* other.

BarKinds == {"buy", "sell", "none"}

ExampleBars == <<"none", "none", "buy", "buy", "buy", "none", "none", "buy">>

ConditionSeries ==
    UNION {[1..n -> BarKinds] : n \in 0..MaxBars} \cup {ExampleBars}

\* condition.shift(1, fill_value=False).
shift(c) == IF c = <<>> THEN <<>> ELSE <<FALSE>> \o SubSeq(c, 1, Len(c) - 1)

\* Lines 60-61: condition & ~(condition.shift(1, fill_value=False)).
crossover(c) == [i \in 1..Len(c) |-> c[i] /\ ~shift(c)[i]]

\* Lines 64-68: the column of zeros with 1 at the buy crossovers, then -1 at
\* the sell crossovers.
marked(buy_crossover, sell_crossover) ==
    [i \in 1..Len(buy_crossover) |->
        IF sell_crossover[i] THEN -1 ELSE IF buy_crossover[i] THEN 1 ELSE 0]

\* Line 71 without the forward fill.
perpetuate_NoFill(signal) == signal

\* Line 71, replace(0, nan).ffill().fillna(0): a zero takes the last value
\* before it that is not zero, and stays zero when there is none.
RECURSIVE perpetuate(_)
perpetuate(signal) ==
    IF signal = <<>> THEN <<>>
    ELSE LET n == Len(signal)
             front == perpetuate(SubSeq(signal, 1, n - 1))
         IN  Append(front, IF signal[n] # 0 THEN signal[n]
                           ELSE IF n = 1 THEN 0 ELSE front[n - 1])

\* The signal pass of _run_loop is made on a candle series.  The closes of
\* the series enter the pass through the columns calculate_indicators
\* assigns from df['close'] alone (lines 19-27), so a bar of the close column
\* is given as the kind those columns make it.
SignalsInit ==
    /\ BotInit
    /\ \E bars \in ConditionSeries : df = [NoFrame EXCEPT !.close = bars]
    /\ df_pc = "called"
    /\ returned = <<>>

\* calculate_indicators, then lines 56-57: both conditions are assigned from
\* the close column, whatever columns the frame carries.
Conditions ==
    /\ df_pc = "called"
    /\ df' = [df EXCEPT
                 !.buy_condition = [i \in 1..Len(df.close) |-> df.close[i] = "buy"],
                 !.sell_condition = [i \in 1..Len(df.close) |-> df.close[i] = "sell"]]
    /\ df_pc' = "conditions"
    /\ UNCHANGED <<bot, returned>>

DetectCrossovers ==
    /\ df_pc = "conditions"
    /\ df' = [df EXCEPT !.buy_crossover = crossover(df.buy_condition),
                        !.sell_crossover = crossover(df.sell_condition)]
    /\ df_pc' = "crossovers"
    /\ UNCHANGED <<bot, returned>>

\* Lines 64-68 without line 64: the marks are added to the signal column the
\* frame carries.
ApplySignals_Accumulate ==
    /\ df_pc = "crossovers"
    /\ df' = [df EXCEPT !.signal =
                 [i \in 1..Len(df.close) |->
                     marked(df.buy_crossover, df.sell_crossover)[i]
                       + (IF df.signal = <<>> THEN 0 ELSE df.signal[i])]]
    /\ df_pc' = "applied"
    /\ UNCHANGED <<bot, returned>>

\* Lines 64-68: the signal column is assigned anew.
ApplySignals ==
    /\ df_pc = "crossovers"
    /\ df' = [df EXCEPT !.signal = marked(df.buy_crossover, df.sell_crossover)]
    /\ df_pc' = "applied"
    /\ UNCHANGED <<bot, returned>>

PerpetuateSignal ==
    /\ df_pc = "applied"
    /\ df' = [df EXCEPT !.signal = perpetuate(df.signal)]
    /\ df_pc' = "returned"
    /\ returned' = Append(returned, df'.signal)
    /\ UNCHANGED bot

\* The pass is made again on the frame of the pass before, which carries the
\* columns that pass assigned (main.py, lines 414-415).
SignalPassAgain ==
    /\ df_pc = "returned"
    /\ Len(returned) < Passes
    /\ df_pc' = "called"
    /\ UNCHANGED <<bot, df, returned>>

SignalsNext ==
    \/ Conditions
    \/ DetectCrossovers
    \/ ApplySignals
    \/ PerpetuateSignal
    \/ SignalPassAgain

SignalsSpec == SignalsInit /\ [][SignalsNext]_vars

\* -------------------------------------------------------------- specification

Next ==
    \/ ctor_begin
    \/ ctor_ping
    \/ ctor_connected
    \/ start
    \/ LoopHead
    \/ Decide
    \/ Sleep2
    \/ Cooldown
    \/ stop
    \/ StopRefresh
    \/ StopDone
    \/ \E t \in Threads : UpdAccount(t)
    \/ \E t \in Threads : UpdMarket(t)
    \/ \E t \in Threads : UpdReturn(t)
    \/ \E t \in Threads : TradeFetch(t)
    \/ \E t \in Threads : TradeValidate(t)
    \/ \E t \in Threads : TradeSubmit(t)

Spec == Init /\ [][Next]_vars

\* The bot with the calls of the dashboard, for two of the accounts.
ControlInit == Init /\ rules \in {RulesWide, RulesFine} /\ keys /\ traded_percentage = 50

ControlNext ==
    \/ Next
    \/ execute
    \/ ExecDecide
    \/ ExecReturn
    \/ start_running
    \/ stop_stopped
    \/ StartDone

ControlSpec == ControlInit /\ [][ControlNext]_vars

\* Thread t is inside a call of updateAllData (lines 107-159), the sellStock
\* of its risk test included.
InRefresh(t) ==
    \/ loc[t].pc \in {"acct", "mkt", "uret"}
    \/ loc[t].reason \in {"sl", "tp"}

\* A step of thread t inside updateAllData.
RefreshStep(t) ==
    /\ InRefresh(t)
    /\ \/ UpdAccount(t)
       \/ UpdMarket(t)
       \/ TradeFetch(t)
       \/ TradeValidate(t)
       \/ TradeSubmit(t)
       \/ UpdReturn(t)

\* The calls of updateAllData made by one thread: the constructor's, then
\* those of any number of execute() calls.  The thread does not halt inside
\* updateAllData: every exchange call and every time.sleep returns.
RefreshNext ==
    \/ ctor_begin
    \/ ctor_ping
    \/ ctor_connected
    \/ execute
    \/ ExecDecide
    \/ ExecReturn
    \/ UpdAccount("main")
    \/ UpdMarket("main")
    \/ UpdReturn("main")
    \/ TradeFetch("main")
    \/ TradeValidate("main")
    \/ TradeSubmit("main")

RefreshSpec ==
    /\ Init
    /\ [][RefreshNext]_vars
    /\ WF_vars(RefreshStep("main"))


\* -------------------------------------------------------------- properties

\* What the exchange's rules ask of an order quantity q (in units).
RuleCompliant(q) ==
    /\ q > 0
    /\ rules.minQty <= q
    /\ q <= rules.maxQty
    /\ q % rules.stepSize = 0
    /\ (rules.hasNotional => q * PriceCU >= rules.minNotional)

\* C1: the bot never submits two Buy orders in succession without a Sell
\* order between them.  (Fails: a Buy that leaves the base balance at or below
\* the dust threshold is reconciled to Flat, and the next cycle buys again.)
C1_NoTwoBuysInSuccession == ~(prevSide = "BUY" /\ lastSide = "BUY")

\* C2: one iteration of _run_loop submits at most one order.  (Fails: the
\* refresh, the signal check and the second refresh can each submit one.)
C2_OneOrderPerIteration == iterOrders <= 1

\* C3: one invocation of buyStock or sellStock calls create_order at most
\* once; a failed submission is not submitted again.
C3_OneSubmissionPerInvocation == \A t \in Threads : loc[t].submits <= 1

\* C3 witness: a buyStock of the loop whose only create_order was rejected
\* has returned None, and no order was ever accepted.
C3_Witness ==
    /\ loc["main"].pc = "sleep2"
    /\ loc["main"].result = "api_error"
    /\ loc["main"].submits = 1
    /\ nOrders = 0

\* C4: every quantity handed to create_order satisfies the exchange's rules:
\* q > 0, minQty <= q <= maxQty, q a multiple of stepSize, and
\* q x price >= minNotional (price being the ticker price the validation read).
C4_SubmittedQuantityCompliant ==
    \A t \in Threads :
        loc[t].pc = "submit" => rules.listed /\ RuleCompliant(loc[t].qty)

\* C4 witness: the loop is about to submit a Buy of 0.01000 (1000 units).
C4_Witness ==
    /\ loc["main"].pc = "submit"
    /\ loc["main"].side = "BUY"
    /\ loc["main"].qty = 1000

\* C5: the computed quantity is a multiple of the step size and is at most the
\* raw quantity.  (Fails: max(min_qty, quantity_dec) raises a raw quantity
\* below minQty to minQty.)
C5_RoundedDownMultiple ==
    \A t \in Threads :
        (loc[t].pc = "validate" /\ rules.listed) =>
            LET raw == RawQuantity(loc[t])
                q == FormattedQuantity(raw, rules)
            IN  q % rules.stepSize = 0 /\ q <= raw

\* C6: while Long, the loop submits a Sell only on a Sell signal (-1), a
\* stop-loss breach or a take-profit breach.  (Fails: a Hold signal (0) with
\* no breach makes trade_decision false and the loop sells.)
C6_SellOnlyOnSellSignalOrBreach ==
    (loc["main"].pc = "submit" /\ loc["main"].side = "SELL") =>
        loc["main"].reason \in {"sell", "sl", "tp"}

\* C7: when stop() is invoked while Running and Long, exactly one Sell order
\* has been accepted in total once stop has completed, and the position is
\* Flat.  (Fails: a rejected Sell is not repeated; the loop's iteration in
\* progress submits orders of its own.)
C7_StopSellsExactlyOnce ==
    (loc["ctl"].pc = "stop_done" /\ stop_long) =>
        sells_since_stop = 1 /\ ~actual_trade_position

\* The thread t takes a step.
Steps(t) == loc'[t] # loc[t]

\* The validation is about to reject the quantity of thread t.
ValidationRejects(l) ==
    /\ l.pc = "validate"
    /\ ~(rules.listed /\ RuleCompliant(FormattedQuantity(RawQuantity(l), rules)))

\* C8: when the validation rejects the quantity of a buy or sell, no order is
\* submitted, the position belief and last_trade are unchanged, the attempt
\* is not retried, and the caller continues (the loop goes on to its sleep,
\* updateAllData to its return, stop to its refresh).
C8_ValidationRejectionIsNoOp ==
    [][\A t \in Threads :
          (ValidationRejects(loc[t]) /\ Steps(t)) =>
              /\ loc'[t].pc \in {"sleep2", "uret", "stop_upd"}
              /\ loc'[t].submits = 0
              /\ loc'[t].result = "value_error"
              /\ UNCHANGED <<actual_trade_position, last_trade, exBase, exQuote,
                             nOrders, lastSide, _running>>]_vars

\* C8 witness: a buyStock of the loop has returned None after a ValueError,
\* in a run where the pair is listed and an order was accepted before.
C8_Witness ==
    /\ loc["main"].pc = "sleep2"
    /\ loc["main"].result = "value_error"
    /\ rules.listed
    /\ nOrders > 0

\* The main thread is inside the while loop of _run_loop.
InLoop(l) ==
    \/ l.pc \in {"head", "decide", "sleep2", "cooldown"}
    \/ l.frame \in {"u1", "u2", "trade"}

\* C9: an error inside an iteration never ends the loop: the loop is left
\* only by the loop test finding _running false, the cooldown is followed by
\* the loop test, the loop test with _running true starts an iteration, and
\* _running is cleared by stop alone.
C9_LoopSurvivesErrors ==
    [][/\ (InLoop(loc["main"]) /\ Steps("main")) =>
              /\ \/ InLoop(loc'["main"])
                 \/ (loc["main"].pc = "head" /\ ~_running /\ loc'["main"].pc = "exited")
              /\ (loc["main"].pc = "cooldown" => loc'["main"].pc = "head")
              /\ ((loc["main"].pc = "head" /\ _running) =>
                      (loc'["main"].pc = "acct" /\ loc'["main"].frame = "u1"))
       /\ (_running /\ ~_running') => (loc["ctl"].pc = "idle" /\ Steps("ctl"))]_vars

\* C9 witness: the loop is in its cooldown sleep and no stop was requested.
C9_Witness == loc["main"].pc = "cooldown" /\ _running

\* C10: when a retried call (updateAllData, the constructor's connectivity
\* check) succeeds after k failed attempts (k < 5; attempt counts them), it
\* has made k + 1 attempts and slept initial_delay x (2^k - 1) seconds in
\* total, and it returns without another attempt.
C10_RetryBackoff ==
    \A t \in Threads :
        loc[t].pc \in {"uret", "ctor_ok"} =>
            /\ loc[t].attempt < max_retries
            /\ loc[t].tries = loc[t].attempt + 1
            /\ loc[t].slept = initial_delay * (Pow2(loc[t].attempt) - 1)

\* C10 witness: updateAllData returns after 2 failed attempts and 30 seconds
\* of sleep.
C10_Witness ==
    /\ loc["main"].pc = "uret"
    /\ loc["main"].attempt = 2
    /\ loc["main"].tries = 3
    /\ loc["main"].slept = 30

\* C11: when every attempt of a retried call (updateAllData, the constructor's
\* connectivity check) fails, the call raises after max_retries attempts, the
\* exception it raises is the one of the last attempt, and it has slept
\* initial_delay x (2^(max_retries - 1) - 1) seconds: once after each failed
\* attempt but the last.
C11_RetryExhausted ==
    \A t \in Threads :
        loc[t].raised.exhausted =>
            /\ loc[t].raised.after = max_retries
            /\ loc[t].raised.attempt = max_retries
            /\ loc[t].raised.slept = initial_delay * (Pow2(max_retries - 1) - 1)

\* C11 witness: the fifth attempt of the loop's updateAllData failed, and the
\* loop is in its cooldown after 150 seconds of retry sleeps.
C11_Witness ==
    /\ loc["main"].pc = "cooldown"
    /\ loc["main"].raised.exhausted
    /\ loc["main"].raised.after = 5
    /\ loc["main"].raised.slept = 150

\* C12: once the constructor has returned, the position belief is Long
\* exactly when the base balance it fetched is above the dust threshold, and
\* the belief is not Flat while the exchange holds more than the threshold.
\* (Fails: the constructor's updateAllData sells on a stop-loss or take-profit
\* breach after it derived the position, and the Sell of a balance cut to the
\* step size can leave more than the threshold on the exchange.)
C12_PositionReconciledAtStartup ==
    loc["main"].pc = "ready" =>
        /\ actual_trade_position <=> last_stock_account_balance > Dust
        /\ ~actual_trade_position => exBase <= Dust

\* Thread t completes the fetch of a refresh (lines 116-136) while the bot is
\* Long: the series has two bars and the thread goes on to a Sell or to the
\* return of updateAllData.
RefreshWhileLong(t) ==
    /\ loc[t].pc = "mkt"
    /\ actual_trade_position
    /\ loc'[t].pc \in {"fetch", "uret"}

\* C13: while Long, a refresh calls sellStock for the stop-loss exactly when
\* (last - prev) / prev x 100 <= -stop_loss (closes in tenths, stop_loss in
\* tenths of a percent).  (Fails: price_change is computed in floats; for the
\* closes 10.0 and 9.9 it is -0.9999999999999963, which is not <= -1.0.)
C13_StopLossIffBreach ==
    [][\A t \in Threads :
          RefreshWhileLong(t) =>
              ((loc'[t].pc = "fetch" /\ loc'[t].reason = "sl") <=>
                   (candle_data'.last - candle_data'.prev) * 1000
                       <= (0 - stop_loss) * candle_data'.prev)]_vars

\* C14: while Long, a refresh calls sellStock for the take-profit exactly
\* when (last - prev) / prev x 100 >= take_profit.  (Fails: for the closes
\* 10.0 and 10.1 the float price_change is 0.9999999999999963 < 1.0.)
C14_TakeProfitIffBreach ==
    [][\A t \in Threads :
          RefreshWhileLong(t) =>
              ((loc'[t].pc = "fetch" /\ loc'[t].reason = "tp") <=>
                   (candle_data'.last - candle_data'.prev) * 1000
                       >= take_profit * candle_data'.prev)]_vars

\* The exchange accepts the order that thread t submits.
OrderAccepted(t) == loc[t].pc = "submit" /\ Steps(t) /\ nOrders' = nOrders + 1

\* C15: when the loop's Buy (Running, Flat, signal 1) passes the validation
\* and is accepted, its quantity is quote balance x percentage / 100 / price
\* rounded down to a multiple of the step size, and the position becomes
\* Long.  (Fails: a rounded quantity below minQty is raised to minQty, so
\* the Buy is larger than the configured share of the balance.)
C15_BuyIsRoundedShare ==
    [][(OrderAccepted("main") /\ loc["main"].reason = "buy") =>
           /\ loc["main"].qty =
                  (loc["main"].raw \div rules.stepSize) * rules.stepSize
           /\ actual_trade_position']_vars

\* The buy condition, or the sell condition, turns true at bar j after being
\* false (or at the first bar).
BuyEvent(j) ==
    df.buy_condition[j] /\ (j = 1 \/ ~df.buy_condition[j - 1])

SellEvent(j) ==
    df.sell_condition[j] /\ (j = 1 \/ ~df.sell_condition[j - 1])

\* The signal of the most recent event at or before bar i, 0 without one.
LastEvent(i) ==
    LET events == {j \in 1..i : BuyEvent(j) \/ SellEvent(j)} IN
    IF events = {} THEN 0
    ELSE LET j == CHOOSE j \in events : \A k \in events : k <= j
         IN  IF BuyEvent(j) THEN 1 ELSE -1

\* C16: the column strategy_signals returns has, at every bar i, the value of
\* the most recent first-crossing event at or before i (1 for the buy
\* condition, -1 for the sell condition) and 0 before the first event; the
\* buy conditions F,F,T,T,T,F,F,T give 0,0,1,1,1,1,1,1.
C16_StickySignal ==
    df_pc = "returned" =>
        /\ Len(df.signal) = Len(df.buy_condition)
        /\ \A i \in 1..Len(df.signal) : df.signal[i] = LastEvent(i)
        /\ (df.buy_condition = [i \in 1..8 |-> ExampleBars[i] = "buy"]
               /\ df.sell_condition = [i \in 1..8 |-> FALSE])
             => df.signal = <<0, 0, 1, 1, 1, 1, 1, 1>>

\* C16 witness: strategy_signals has returned for the example series, whose
\* buy condition falls and rises again after the first crossing.
C16_Witness ==
    /\ df_pc = "returned"
    /\ df.buy_condition = <<FALSE, FALSE, TRUE, TRUE, TRUE, FALSE, FALSE, TRUE>>
    /\ df.signal = <<0, 0, 1, 1, 1, 1, 1, 1>>

\* The control thread returns from a start() or a stop() that found the bot
\* already in the state asked for.
IdempotentCall ==
    /\ loc["ctl"].pc = "idle"
    /\ \/ _running /\ loc'["ctl"].pc = "start_done"
       \/ ~_running /\ loc'["ctl"].pc = "stop_done"

\* C17: start() while Running and stop() while Stopped change no state of the
\* bot and submit no order; execute() while Stopped submits no order and
\* leaves the bot Stopped.  (Fails: execute begins with updateAllData, which
\* sells when the bot is Long and the stop-loss or take-profit is breached.)
C17_IdempotentCalls ==
    [][/\ IdempotentCall =>
              UNCHANGED <<exchange, _running, actual_trade_position, account,
                          candle_data, last_trade, nOrders>>
       /\ (loc["main"].frame \in {"exec", "exect"} /\ Steps("main")) =>
              /\ loc'["main"].pc # "submit"
              /\ UNCHANGED <<_running, nOrders>>]_vars

\* C18: every accepted order has exactly one order entry in the log and
\* exactly one persisted raw order record.  (Fails: no record is persisted.)
C18_OneLogOneRecordPerOrder ==
    /\ order_logs = nOrders
    /\ order_files = nOrders

\* The last connectivity attempt of the constructor fails.
LastPingFails ==
    /\ loc["main"].pc = "ctor"
    /\ loc["main"].attempt = max_retries - 1
    /\ Steps("main")
    /\ loc'["main"].pc # "ctor_ok"

\* C19: with a credential missing the constructor raises before it makes any
\* exchange call; when the last of the max_retries connectivity attempts
\* fails it raises; after either, the bot never runs and submits no order.
C19_FailedConstruction ==
    /\ [](~keys => /\ loc["main"].pc \in {"new", "dead"}
                   /\ loc["main"].tries = 0
                   /\ ~_running
                   /\ nOrders = 0)
    /\ [][LastPingFails => /\ loc'["main"].pc = "dead"
                           /\ loc'["main"].raised.exhausted
                           /\ nOrders' = 0]_vars
    /\ [][loc["main"].pc = "dead" =>
               /\ loc'["main"].pc = "dead"
               /\ UNCHANGED <<exchange, _running, nOrders>>]_vars

\* C19 witness: the constructor has raised after max_retries failed pings.
C19_Witness ==
    /\ keys
    /\ loc["main"].pc = "dead"
    /\ loc["main"].raised.exhausted
    /\ loc["main"].raised.at = "ctor"
    /\ loc["main"].raised.after = max_retries
    /\ ~_running
    /\ nOrders = 0

\* C20: after an accepted order no further order is submitted until
\* updateAllData has fetched the balances again.  (Fails: updateAllData
\* fetches the balances at lines 116-118, sells on the stop-loss at line 141,
\* and the loop then buys on the signal with the balances fetched before that
\* sale.)
C20_RefreshBetweenOrders ==
    [][\A t \in Threads : unconfirmed => ~OrderAccepted(t)]_vars

\* Thread t is between the entry of buyStock / sellStock and the return of
\* its create_order.
Ordering(t) == loc[t].pc \in {"fetch", "validate", "submit"}

\* C21: a stop() called during an iteration acts at the iteration boundary:
\* its liquidating Sell does not run while the iteration is still in
\* progress, and two create_order calls are never in flight together.
\* (Fails: stop() runs sellStock in the calling thread at once, lines
\* 404-407, with nothing that waits for the loop.)
C21_StopAtIterationBoundary ==
    /\ ~(loc["main"].pc = "submit" /\ loc["ctl"].pc = "submit")
    /\ (Ordering("ctl") /\ loc["ctl"].frame = "stop") =>
           loc["main"].frame \notin {"u1", "trade", "u2"}

\* An exchange call of thread t's updateAllData fails: the call is retried or
\* its exception leaves updateAllData.
RefreshFails(t) ==
    /\ loc[t].pc \in {"acct", "mkt"}
    /\ Steps(t)
    /\ \/ loc'[t].pc = "acct" /\ loc'[t].attempt = loc[t].attempt + 1
       \/ loc'[t].raised # NoError /\ loc'[t].raised.at = loc[t].pc

\* C22: a failure of an exchange call of updateAllData before the last
\* attempt, of whatever kind, is followed by a sleep of retry_delay and
\* another attempt.  (Fails: lines 157-159 re-raise at once every exception
\* that is not a BinanceAPIException.)
C22_EveryFailureRetried ==
    [][\A t \in Threads :
          (RefreshFails(t) /\ loc[t].attempt < max_retries - 1) =>
              /\ loc'[t].pc = "acct"
              /\ loc'[t].attempt = loc[t].attempt + 1
              /\ loc'[t].slept = loc[t].slept + loc[t].retry_delay]_vars

\* C23: while no order has been accepted since self.account_data was last
\* fetched, the position belief is the fact derived from the fetched
\* balance: Long exactly when last_stock_account_balance > 0.001.
C23_BeliefIsDerivedFact ==
    ~unconfirmed => (actual_trade_position <=> last_stock_account_balance > Dust)

\* C23 witness: after an accepted Buy, a fetch found a balance of exactly
\* 0.001 and the bot believes it is Flat.
C23_Witness ==
    /\ nOrders > 0
    /\ ~unconfirmed
    /\ last_stock_account_balance = Dust
    /\ ~actual_trade_position

\* The risk test of thread t's updateAllData finds a threshold breached and
\* calls sellStock.
RiskSellBegins(t) ==
    /\ loc[t].pc = "mkt"
    /\ Steps(t)
    /\ loc'[t].reason \in {"sl", "tp"}

\* C24: in an iteration of the loop the stop-loss / take-profit test acts
\* only when the reconciled position is Long, and a Sell it triggers is
\* submitted before the signal test of that iteration.  (Fails: the
\* updateAllData of line 437 runs the risk test again after the signal test
\* of lines 417-428.)
C24_RiskExitBeforeSignal ==
    /\ [][(RiskSellBegins("main") /\ loc["main"].frame \in {"u1", "u2"}) =>
              /\ actual_trade_position
              /\ last_stock_account_balance > Dust]_vars
    /\ [](loc["main"].pc = "submit" /\ loc["main"].reason \in {"sl", "tp"} =>
              loc["main"].frame # "u2")

\* The latest signal agrees with the position and the series in hand breaches
\* neither threshold.
SignalAgrees ==
    /\ candle_data \in Markets
    /\ ~StopLossHit(candle_data)
    /\ ~TakeProfitHit(candle_data)
    /\ \/ actual_trade_position /\ candle_data.signal = 1
       \/ ~actual_trade_position /\ candle_data.signal # 1

\* C25: when the signal agrees with the position (Long and Buy; Flat and
\* Sell or Hold) and no threshold is breached, the signal test of the loop
\* calls neither buyStock nor sellStock: no order is submitted and the
\* position is unchanged.
C25_AgreeingSignalIsNoOp ==
    [][(loc["main"].pc = "decide" /\ Steps("main") /\ SignalAgrees) =>
          /\ loc'["main"].pc = "sleep2"
          /\ loc'["main"].side = "none"
          /\ UNCHANGED <<actual_trade_position, exchange, nOrders, last_trade>>]_vars

\* C25 witness: a Long bot met a Buy signal in an iteration that has
\* submitted nothing.
C25_Witness ==
    /\ _running
    /\ loc["main"].pc = "sleep2"
    /\ loc["main"].result = "none"
    /\ SignalAgrees
    /\ actual_trade_position
    /\ iterOrders = 0
    /\ nOrders = 0

\* The exchange rejects the Sell that thread t submits.
SellRejected(t) ==
    /\ loc[t].pc = "submit"
    /\ loc[t].side = "SELL"
    /\ Steps(t)
    /\ nOrders' = nOrders
    /\ loc'[t].raised = NoError

\* C26: a Sell that the exchange rejects leaves the position belief as it
\* was (Long), is logged as an error, and is not submitted again by that
\* sellStock; a later risk exit is decided by an updateAllData that has
\* fetched the account again.
C26_RejectedSellNotRetried ==
    [][\A t \in Threads :
          /\ SellRejected(t) =>
                 /\ UNCHANGED <<actual_trade_position, exchange, nOrders>>
                 /\ loc'[t].result = "api_error"
                 /\ loc'[t].caught = "error"
                 /\ loc'[t].submits = 1
                 /\ loc'[t].pc \in {"uret", "sleep2", "stop_upd", "exec_sleep"}
          /\ RiskSellBegins(t) => loc[t].tries > 0]_vars

\* C26 witness: the stop-loss Sell of the loop's first refresh was rejected;
\* updateAllData is about to return with the bot still Long.
C26_Witness ==
    /\ _running
    /\ actual_trade_position
    /\ loc["main"].pc = "uret"
    /\ loc["main"].frame = "u1"
    /\ loc["main"].result = "api_error"
    /\ loc["main"].caught = "error"
    /\ loc["main"].submits = 1
    /\ nOrders = 0

\* Thread t enters updateAllData.
RefreshBegins(t) == ~InRefresh(t) /\ InRefresh(t)'

\* C27: a call of updateAllData makes at most max_retries attempts; before
\* attempt number k + 1 it has slept initial_delay, 2 x initial_delay, ...
\* (10, 20, 40, 80 seconds) and the next delay is initial_delay x 2^k; a new
\* call starts again with attempt 0 and initial_delay; and every call ends,
\* by returning or raising.
C27_BoundedBackoffTerminates ==
    /\ [](\A t \in Threads :
              InRefresh(t) =>
                  /\ loc[t].attempt < max_retries
                  /\ loc[t].tries <= loc[t].attempt + 1
                  /\ loc[t].retry_delay = initial_delay * Pow2(loc[t].attempt)
                  /\ loc[t].slept = initial_delay * (Pow2(loc[t].attempt) - 1))
    /\ [][\A t \in Threads :
              RefreshBegins(t) =>
                  /\ loc'[t].pc = "acct"
                  /\ loc'[t].attempt = 0
                  /\ loc'[t].tries = 0
                  /\ loc'[t].retry_delay = initial_delay]_vars
    /\ \A t \in Threads : InRefresh(t) ~> ~InRefresh(t)

\* C27 witness: the updateAllData of an execute() that follows an accepted
\* order is about to make its fifth attempt, after sleeps of 10, 20, 40 and
\* 80 seconds.
C27_Witness ==
    /\ nOrders > 0
    /\ loc["main"].pc = "acct"
    /\ loc["main"].frame = "exec"
    /\ loc["main"].attempt = max_retries - 1
    /\ loc["main"].tries = max_retries - 1
    /\ loc["main"].slept = 150
    /\ loc["main"].retry_delay = 160

\* A handler of the bot catches an exception in this step of thread t: a
\* retry loop goes on to its next attempt, buyStock / sellStock returns None,
\* or an exception leaves the call through a handler.
Catches(t) ==
    /\ Steps(t)
    /\ \/ loc'[t].attempt = loc[t].attempt + 1
       \/ Ordering(t) /\ loc'[t].result \in {"api_error", "value_error"}
       \/ loc[t].raised = NoError /\ loc'[t].raised # NoError /\ Handled(loc[t])

\* C28: every exception that a handler of the bot catches is written to the
\* log as an error entry.  (Fails: the retry loops of the constructor and of
\* updateAllData write a failed attempt that will be retried with log_info,
\* lines 97 and 151.)
C28_CaughtMeansErrorEntry ==
    [][\A t \in Threads : Catches(t) => loc'[t].caught = "error"]_vars

\* The number of fractional digits of a step size: 5 for 0.00001, 0 for 1 and
\* for 10.
StepPrecision(step) == Max(0, 0 - NormalizedExponent(step))

\* C29: the quantity string handed to create_order has as many fractional
\* digits as the step size has.  (Fails: for a step size of 10 the normalized
\* step is 1E+1, its exponent is 1, and abs() of it asks format() for one
\* fractional digit.)
C29_FractionDigitsOfStep ==
    loc["main"].pc = "submit" =>
        decimal_places(rules.stepSize) = StepPrecision(rules.stepSize)

\* C30: a bot that submits an order has a trading percentage in (0, 100] and
\* positive stop-loss and take-profit, and its configuration never changes.
\* (Fails: neither from_env nor the constructor tests the percentage; with
\* TRADING_PERCENTAGE=0 the raw quantity 0 is raised to minQty and bought.)
C30_ConfigurationValid ==
    /\ [](\A t \in Threads :
              loc[t].pc = "submit" =>
                  /\ traded_percentage > 0
                  /\ traded_percentage <= 100
                  /\ stop_loss > 0
                  /\ take_profit > 0)
    /\ [][UNCHANGED config]_vars


C32_OrdersOnlyWhileRunning ==
    [][\A t \in Threads :
          OrderAccepted(t) =>
              \/ _running
              \/ loc[t].frame = "stop" /\ loc[t].reason = "stop"]_vars

\* C33: from the step of stop() that clears _running until the next start(),
\* the exchange accepts no Buy order, however the steps of stop() and of the
\* loop iteration in progress interleave.
C33_NoBuyAfterStop ==
    [][\A t \in Threads :
          OrderAccepted(t) /\ loc[t].side = "BUY" => _running]_vars

\* The frames of a call of updateAllData.
InUpdate(l) == l.frame \in {"ctor", "u1", "u2", "exec", "stop"} /\ l.reason # "stop"

\* C34: with stop_loss > 0 and take_profit > 0, a call of updateAllData makes
\* at most one create_order call, whatever number of its attempts fail and
\* are retried.
C34_OneOrderPerRefresh ==
    stop_loss > 0 /\ take_profit > 0 =>
        \A t \in Threads : InUpdate(loc[t]) => loc[t].sent <= 1

\* C34 witness: a refresh returns after a stop-loss or take-profit Sell that
\* it sent in its third attempt or later.
C34_Witness ==
    \E t \in Threads :
        /\ InUpdate(loc[t])
        /\ loc[t].pc = "uret"
        /\ loc[t].attempt >= 2
        /\ loc[t].sent = 1
        /\ loc[t].result = "order"

\* C35: when last_trade is set, its side is the side of the last order the
\* exchange accepted from the bot, whichever of the loop, execute, the risk
\* test of updateAllData and stop() submitted that order.
C35_LastTradeIsLastOrder ==
    last_trade # NoTrade => last_trade.side = lastSide

\* A thread raises out of the risk test of updateAllData, every exchange call
\* of the refresh having succeeded and no order having been sent.
RaisesInRiskTest(t) ==
    /\ loc[t].pc = "mkt"
    /\ loc'[t].raised # NoError
    /\ loc'[t].raised.at = "risk"

\* C36: a refresh whose exchange calls all succeed raises no error, for every
\* candle series that is not empty (a series of one bar included) and for
\* either position.
C36_RefreshDoesNotRaise ==
    [][\A t \in Threads : ~RaisesInRiskTest(t)]_vars

====
